---- MODULE Spec2Model ----
(***************************************************************************)
(* A model of accutools-core: the line wrapper (split_into_lines), the     *)
(* model normalizer (ReceiptInfo::pre_pass), the layout selection of       *)
(* gen_pdf and the checkpoint walk of parse_html.                          *)
(*                                                                         *)
(* Text whose characters matter (wrapped descriptions, amount values) is   *)
(* a sequence of one-character strings; text that is only compared for     *)
(* equality (names, codes) is a plain string.  All characters are ASCII,   *)
(* so Rust's byte offsets and character indices coincide.                  *)
(***************************************************************************)
EXTENDS Integers, Sequences, FiniteSets, TLC

VARIABLES
    string,       \* split_into_lines: the argument `string`
    max_length,   \* split_into_lines: the argument `max_length`
    lines,        \* split_into_lines: the local Vec `lines`
    wpc,          \* split_into_lines: position
    forced,       \* history: indices of `lines` pushed by the forced split
    doc_type,     \* ReceiptInfo.doc_type
    item_lines,   \* ReceiptInfo.item_lines
    totals,       \* ReceiptInfo.totals
    payments,     \* ReceiptInfo.payments
    pre_result,   \* what the last pre_pass call returned ("none" before any call)
    calls,        \* number of pre_pass calls made on the document
    layout,       \* gen_pdf: layout_type of the last call ("none" before it is set)
    gen_result,   \* what the last gen_pdf call did ("none" before any call)
    page,         \* gen_pdf: the drawing calls of the last call that returned Ok
    drawn,        \* history: the document the last gen_pdf call was given
    header,       \* ReceiptInfo: the fields other than the four above it here
    extracted,    \* history: the document as it was constructed
    before,       \* history: the document at the entry of the last pre_pass call
    mail,         \* parse_html: the file, as the markers and selectors see it
    parsed        \* parse_html: what the call returned ("pending" before it)

wrapVars == <<string, max_length, lines, wpc, forced>>
docVars == <<doc_type, item_lines, totals, payments, pre_result, calls,
             layout, gen_result, page, drawn, header, extracted, before>>
parseVars == <<mail, parsed>>
vars == <<wrapVars, docVars, parseVars>>

----------------------------------------------------------------------------
(* Bounds *)

MaxLen == 5          \* longest string handed to the wrapper
MaxMaxLength == 3    \* largest max_length handed to the wrapper

\* The Vec of lines grows by one element per loop iteration.  A call that
\* returns on a string of at most MaxLen characters never holds more than
\* MaxLen + 2 lines (WrapReturnsWithinCapacity), so Capacity is reached only
\* by a loop that does not exit.
Capacity == MaxLen + 3

Chars == {"a", "b", " ", "-"}

Strs(n) == UNION {[1..k -> Chars] : k \in 0..n}

----------------------------------------------------------------------------
(* split_into_lines *)

Last(s) == s[Len(s)]

Front(s) == SubSeq(s, 1, Len(s) - 1)

IsBreak(c) == c = " " \/ c = "-"

LoopCondInclusive(line, max) == Len(line) >= max

\* while lines.last().len() > max_length
LoopCond(line, max) == Len(line) > max

WindowOneMore(line, max) ==
    SubSeq(line, 1, IF Len(line) < max + 2 THEN Len(line) ELSE max + 2)

\* &last_line[..max_length+1]
Window(line, max) == SubSeq(line, 1, max + 1)

\* The position of the first break character of the window, 0 for None.
FirstWhitespace(window) ==
    LET ps == {p \in 1..Len(window) : IsBreak(window[p])}
    IN  IF ps = {} THEN 0 ELSE CHOOSE p \in ps : \A q \in ps : p <= q

\* .chars().enumerate().filter(' ' or '-').last(): the position (1-based) of
\* the last break character of the window, 0 for None.
FinalWhitespace(window) ==
    LET ps == {p \in 1..Len(window) : IsBreak(window[p])}
    IN  IF ps = {} THEN 0 ELSE CHOOSE p \in ps : \A q \in ps : q <= p

\* str::split_at(mid): mid is a 0-based byte offset.
SplitAt(line, mid) == <<SubSeq(line, 1, mid), SubSeq(line, mid + 1, Len(line))>>

BreakSplitDropsBreak(line, index) ==
    <<SubSeq(line, 1, index), <<" ">> \o SubSeq(line, index + 2, Len(line))>>

\* The Some branch: index is the 0-based index found by the scan.
BreakSplit(line, index) ==
    LET parts == SplitAt(line, index + 1)
    IN  <<parts[1], <<" ">> \o parts[2]>>

\* The None branch.
ForcedSplit(line, max) ==
    LET parts == SplitAt(line, max + 1)
    IN  <<parts[1] \o <<"-">>, <<" ">> \o parts[2]>>

\* The two lines that replace the popped last line.
SplitLast(last_line, max) ==
    LET p == FinalWhitespace(Window(last_line, max))
    IN  IF p # 0 THEN BreakSplit(last_line, p - 1)
                 ELSE ForcedSplit(last_line, max)

\* let mut lines = Vec::new(); if string.is_empty() { return Vec::new() }
\* lines.push(string.to_owned())
InitialLines(s) == IF s = <<>> THEN <<>> ELSE <<s>>

\* The whole call as a function, for its callers: the loop is run until it
\* exits; a call whose list outgrows Len(s) + 3 lines never returns (see
\* WrapReturnsWithinCapacity and WrapExhaustedIsStuck).
RECURSIVE WrapLoop(_, _, _)
WrapLoop(ls, max, cap) ==
    IF ~LoopCond(Last(ls), max) THEN [returns |-> TRUE, lines |-> ls]
    ELSE IF Len(ls) >= cap THEN [returns |-> FALSE, lines |-> <<>>]
    ELSE WrapLoop(Front(ls) \o SplitLast(Last(ls), max), max, cap)

SplitIntoLines(s, max) ==
    IF InitialLines(s) = <<>> THEN [returns |-> TRUE, lines |-> <<>>]
    ELSE WrapLoop(InitialLines(s), max, Len(s) + 3)

WrapIdle ==
    /\ string = <<>>
    /\ max_length = 1
    /\ lines = <<>>
    /\ wpc = "idle"
    /\ forced = {}

DocIdle ==
    /\ doc_type = "Invoice"
    /\ item_lines = <<>>
    /\ totals = <<>>
    /\ payments = <<>>
    /\ pre_result = "none"
    /\ calls = 0
    /\ layout = "none"
    /\ gen_result = "idle"
    /\ page = <<>>
    /\ drawn = [item_lines |-> <<>>, totals |-> <<>>, payments |-> <<>>]
    /\ header = [title |-> ""]
    /\ extracted = [item_lines |-> <<>>, totals |-> <<>>, payments |-> <<>>]
    /\ before = extracted

ParseIdle ==
    /\ mail = [readable |-> FALSE, open |-> FALSE, close |-> FALSE,
               body |-> FALSE, spans |-> <<>>, tables |-> <<>>]
    /\ parsed = [state |-> "idle", reason |-> "", receipt |-> <<>>]

WrapInit ==
    /\ string \in Strs(MaxLen)
    /\ max_length \in 1..MaxMaxLength
    /\ lines = <<>>
    /\ wpc = "start"
    /\ forced = {}
    /\ DocIdle
    /\ ParseIdle

WrapBegin ==
    /\ wpc = "start"
    /\ lines' = InitialLines(string)
    /\ wpc' = IF lines' = <<>> THEN "done" ELSE "loop"
    /\ UNCHANGED <<string, max_length, forced, docVars, parseVars>>

\* One iteration of the while loop.  Slicing [..max_length+1] panics when the
\* line is shorter than that.
WrapStep ==
    /\ wpc = "loop"
    /\ LoopCond(Last(lines), max_length)
    /\ LET last_line == Last(lines)
           popped == Front(lines)
       IN  IF Len(last_line) < max_length + 1
           THEN /\ lines' = popped
                /\ wpc' = "panic"
                /\ forced' = forced
           ELSE /\ lines' = popped \o SplitLast(last_line, max_length)
                /\ forced' =
                      IF FinalWhitespace(Window(last_line, max_length)) # 0
                      THEN forced ELSE forced \cup {Len(popped) + 1}
                /\ wpc' = IF Len(lines') >= Capacity THEN "exhausted" ELSE "loop"
    /\ UNCHANGED <<string, max_length, docVars, parseVars>>

\* The loop condition is false: return lines.
WrapReturn ==
    /\ wpc = "loop"
    /\ ~LoopCond(Last(lines), max_length)
    /\ wpc' = "done"
    /\ UNCHANGED <<string, max_length, lines, forced, docVars, parseVars>>

WrapNext == WrapBegin \/ WrapStep \/ WrapReturn

WrapSpec == WrapInit /\ [][WrapNext]_vars

----------------------------------------------------------------------------
(* Properties of split_into_lines *)

Flatten(ls) == 
    LET F[i \in 0..Len(ls)] == IF i = 0 THEN <<>> ELSE F[i - 1] \o ls[i]
    IN  F[Len(ls)]

NonWhitespace(s) == SelectSeq(s, LAMBDA c : c # " ")

\* A produced line without its synthetic parts: the leading space of a
\* continuation line (every line but the first) and the hyphen of a forced
\* split.
Stripped(ls, i) ==
    LET l1 == IF i > 1 THEN Tail(ls[i]) ELSE ls[i]
    IN  IF i \in forced THEN Front(l1) ELSE l1

StrippedLines(ls) == [i \in 1..Len(ls) |-> Stripped(ls, i)]

\* A call that returns never holds more than MaxLen + 2 lines.
WrapReturnsWithinCapacity == wpc = "done" => Len(lines) <= MaxLen + 2

\* The call that outgrows Capacity is in a loop that cannot exit: its last
\* iteration popped a line and pushed the same line back as the new last line.
WrapExhaustedIsStuck ==
    [][wpc' = "exhausted" => Last(lines') = Last(lines)]_vars

\* C1: for every string and every max_length >= 1 the loop of
\* split_into_lines exits after finitely many iterations; it never keeps
\* popping and re-splitting the last line until the list of lines outgrows
\* every list a returning call can hold.
C1_WrapTerminates == wpc # "exhausted"

\* C2 as stated: in the returned list every line that is not the product of
\* a forced split has at most max_length characters, and a forced-split line
\* has exactly max_length + 1.
C2_LineLengthAsStated ==
    wpc = "done" =>
        \A i \in 1..Len(lines) :
            IF i \in forced THEN Len(lines[i]) = max_length + 1
                            ELSE Len(lines[i]) <= max_length

\* C2 amended: in the returned list the last line has at most max_length
\* characters; a line that is not the product of a forced split has at most
\* max_length characters, or max_length + 1 when its last character is the
\* break character it was split at; the forced-split line has exactly
\* max_length + 2 characters (max_length + 1 of the token plus the hyphen).
C2_LineLengthBound ==
    wpc = "done" /\ lines # <<>> =>
        /\ Len(Last(lines)) <= max_length
        /\ \A i \in 1..Len(lines) :
              IF i \in forced
              THEN Len(lines[i]) = max_length + 2
              ELSE \/ Len(lines[i]) <= max_length
                   \/ Len(lines[i]) = max_length + 1 /\ IsBreak(Last(lines[i]))

\* A returned list holding a forced-split line and a line of max_length + 1
\* characters that ends with its break character.
C2_Witness ==
    /\ wpc = "done"
    /\ forced # {}
    /\ \E i \in 1..Len(lines) : i \notin forced /\ Len(lines[i]) = max_length + 1

\* C3: the produced lines, each continuation line without its leading space
\* and each forced-split line without its hyphen, concatenated in order have
\* the non-whitespace content of the original string.
C3_RoundTrip ==
    wpc \in {"loop", "done", "exhausted"} =>
        NonWhitespace(Flatten(StrippedLines(lines))) = NonWhitespace(string)

\* A returned list of at least three lines, one of them from a forced split.
C3_Witness == wpc = "done" /\ Len(lines) >= 3 /\ forced # {}

\* C4 as stated: a string of at most max_length characters yields exactly
\* one line, equal to the string.
C4_IdempotenceAsStated ==
    wpc \in {"done", "panic", "exhausted"} /\ Len(string) <= max_length
        => wpc = "done" /\ lines = <<string>>

\* C4 amended: a non-empty string of at most max_length characters yields
\* exactly one line, equal to the string (the empty string yields no line).
C4_Idempotence ==
    /\ wpc \in {"done", "panic", "exhausted"} /\ string # <<>>
                                            /\ Len(string) <= max_length
          => wpc = "done" /\ lines = <<string>>
    /\ wpc = "done" /\ string = <<>> => lines = <<>>

C4_Witness ==
    wpc = "done" /\ Len(string) = max_length /\ lines = <<string>>

\* The 0-based indices of the break characters among the first
\* max_length + 1 characters of a line.
BreakIndices(line) ==
    {i \in 0..max_length : i < Len(line) /\ (line[i + 1] = " " \/ line[i + 1] = "-")}

\* C19: a wrap step acts only on the last line, and only when it is longer
\* than max_length: with i the last break character among its first
\* max_length + 1 characters, the line is replaced by line[0..=i] and the
\* continuation " " + line[i+1..]; with no such character, by its first
\* max_length + 1 characters plus a hyphen and the continuation " " + the
\* rest.  The lines before the last one stay as they are.
C19_WrapStep ==
    [][wpc = "loop" =>
          LET n == Len(lines)
              line == lines[n]
          IN  IF Len(line) <= max_length
              THEN lines' = lines
              ELSE /\ Len(lines') = n + 1
                   /\ \A j \in 1..(n - 1) : lines'[j] = lines[j]
                   /\ IF BreakIndices(line) # {}
                      THEN LET i == CHOOSE i \in BreakIndices(line) :
                                        \A q \in BreakIndices(line) : q <= i
                           IN  /\ lines'[n] = SubSeq(line, 1, i + 1)
                               /\ lines'[n + 1] =
                                      <<" ">> \o SubSeq(line, i + 2, Len(line))
                      ELSE /\ lines'[n] =
                                  SubSeq(line, 1, max_length + 1) \o <<"-">>
                           /\ lines'[n + 1] =
                                  <<" ">> \o SubSeq(line, max_length + 2, Len(line))
      ]_vars

C19_Witness ==
    /\ wpc = "done"
    /\ Len(lines) >= 3
    /\ \E i, j \in 1..(Len(lines) - 1) : i \in forced /\ j \notin forced

----------------------------------------------------------------------------
(* The document: ReceiptInfo, ItemLine, Amount *)

MaxPayments == 2     \* longest Payments sequence of a constructed document
MaxCalls == 2        \* most pre_pass calls made on one document

Rep(c, n) == [i \in 1..n |-> c]

Amount(name, value) == [name |-> name, value |-> value]

ItemLine(code, description, quantity, unit_price, amount, uom, discount, taxable) ==
    [code |-> code, description |-> description, quantity |-> quantity,
     unit_price |-> unit_price, amount |-> amount, uom |-> uom,
     discount |-> discount, taxable |-> taxable]

\* Option<String>
None == [some |-> FALSE, value |-> <<>>]
Some(v) == [some |-> TRUE, value |-> v]

DocTypes == {"Invoice", "Receipt", "Quote"}

\* Amount values a document may carry in a "Pay on Account" entry: plain and
\* signed decimals with up to three fractional digits (none of them half-way
\* between two cents), and texts that are no decimal number.
Values ==
    { <<"0", ".", "0", "5">>,
      <<"-", "1", "2", ".", "5">>,
      <<"-", "7", ".", "1", "2", "6">>,
      <<"1", ",", "0", "0", "0", ".", "0", "0">> }

PaymentChoices == {Amount("Pay on Account", v) : v \in Values}

\* Payments sequences with a tender of another name in front.
CashPayments ==
    { <<Amount("Cash", <<"2", "0", ".", "0", "0">>)>>,
      <<Amount("Cash", <<"2", "0", ".", "0", "0">>),
        Amount("Pay on Account", <<"0", ".", "0", "5">>)>>,
      <<Amount("Cash", <<"2", "0", ".", "0", "0">>),
        Amount("Pay on Account", <<"1", ",", "0", "0", "0", ".", "0", "0">>)>> }

\* Payments sequences of three tenders with different names, one of them
\* with an entry that has no name.
LongPayments ==
    { <<Amount("Pay on Account", <<"0", ".", "0", "5">>),
        Amount("Cash", <<"2", "0", ".", "0", "0">>),
        Amount("Check", <<"7", ".", "0", "0">>)>>,
      <<Amount("Cash", <<"2", "0", ".", "0", "0">>),
        Amount("Pay on Account", <<"-", "1", "2", ".", "5">>),
        Amount("Check", <<"7", ".", "0", "0">>)>>,
      <<Amount("Cash", <<"2", "0", ".", "0", "0">>),
        Amount("", <<>>),
        Amount("Check", <<"7", ".", "0", "0">>)>> }

StoneItem ==
    ItemLine("2050", <<"S", "t", "o", "n", "e">>, <<"5", ".", "0", "0">>,
             <<"1", "2", "0", ".", "0", "0">>, <<"6", "0", "0", ".", "0", "0">>,
             "EA", None, TRUE)

DiscountedItem ==
    ItemLine("1001", <<"S", "a", "n", "d">>, <<"2", ".", "5", "0">>,
             <<"1", "0", ".", "0", "0">>, <<"2", "0", ".", "0", "0">>,
             "TON", Some(<<"5", ".", "0", "0">>), FALSE)

\* A description with no text.
BlankItem ==
    ItemLine("1002", <<>>, <<"1", ".", "0", "0">>, <<>>, <<"0", ".", "0", "0">>,
             "TON", None, FALSE)

\* A description whose second word has 31 characters.
LongWordItem ==
    ItemLine("1003", Rep("a", 12) \o <<" ">> \o Rep("b", 31), <<"1", ".", "0", "0">>,
             <<>>, <<"0", ".", "0", "0">>, "TON", None, FALSE)

\* An item that names no unit of measure.
NoUnitItem ==
    ItemLine("2050", <<"G", "r", "i", "t">>, <<"3", ".", "0", "0">>,
             <<"4", ".", "0", "0">>, <<"1", "2", ".", "0", "0">>,
             "", None, FALSE)

\* An item sold by the piece in a quantity that is no whole number, with no
\* amount text.
HalfItem ==
    ItemLine("2051", <<"P", "i", "p", "e">>, <<"2", ".", "5", "0">>,
             <<"8", ".", "0", "0">>, <<>>, "EA", Some(<<>>), FALSE)

\* A description of three words of twenty characters.
WrappedItem ==
    ItemLine("1004", Rep("a", 20) \o <<" ">> \o Rep("b", 20) \o <<" ">>
                         \o Rep("c", 20),
             <<"1", ".", "0", "0">>, <<"9", ".", "0", "0">>,
             <<"9", ".", "0", "0">>, "TON", None, FALSE)

ItemChoices ==
    { <<>>, <<StoneItem>>, <<DiscountedItem>>, <<StoneItem, DiscountedItem>>,
      <<BlankItem>>, <<StoneItem, LongWordItem>>, <<NoUnitItem, HalfItem>>,
      <<WrappedItem, StoneItem>> }

\* The fields of a ReceiptInfo other than doc_type, item_lines, totals and
\* payments.
HeaderChoices ==
    { [title |-> "Customer Invoice", date |-> "01/02/2024",
       company_name |-> "ACME", company_info_line |-> "1 Main St",
       customer_info |-> "Bob\n2 Elm", transaction_number |-> "17",
       order_id |-> "9", vat_number |-> "0042", doc_number |-> "42",
       delivery_tickets |-> "#4821", weigh_tickets |-> "77",
       amount_due |-> "", employee |-> "Ann", slogan |-> "Thank you"] }

TotalsChoices ==
    { <<>>,
      <<Amount("Total:", <<"6", "3", "0", ".", "0", "0">>)>>,
      <<Amount("Subtotal:", <<"6", "0", "0", ".", "0", "0">>),
        Amount("Tax:", <<"3", "0", ".", "0", "0">>),
        Amount("", <<>>),
        Amount("Total:", <<"6", "3", "0", ".", "0", "0">>)>> }

SeqsUpTo(S, n) == UNION {[1..k -> S] : k \in 0..n}

----------------------------------------------------------------------------
(* str::parse::<f64>, f64::abs and format!("{:.2}") *)

Digits == {"0", "1", "2", "3", "4", "5", "6", "7", "8", "9"}

DigitValue(c) ==
    CASE c = "0" -> 0 [] c = "1" -> 1 [] c = "2" -> 2 [] c = "3" -> 3
      [] c = "4" -> 4 [] c = "5" -> 5 [] c = "6" -> 6 [] c = "7" -> 7
      [] c = "8" -> 8 [] c = "9" -> 9

DigitChar(d) == <<"0", "1", "2", "3", "4", "5", "6", "7", "8", "9">>[d + 1]

\* The value of a sequence of decimal digits (0 for the empty sequence).
DigitsValue(ds) ==
    LET V[i \in 0..Len(ds)] ==
            IF i = 0 THEN 0 ELSE 10 * V[i - 1] + DigitValue(ds[i])
    IN  V[Len(ds)]

RECURSIVE DecimalDigits(_)
DecimalDigits(n) ==
    IF n < 10 THEN <<DigitChar(n)>>
              ELSE DecimalDigits(n \div 10) \o <<DigitChar(n % 10)>>

\* The texts str::parse::<f64> accepts, among those a document of this model
\* carries: [+-]digits[.digits] with at least one digit (the exponent, "inf"
\* and "NaN" notations are not among Values).
SignedText(v) == v # <<>> /\ v[1] \in {"+", "-"}

Unsigned(v) == IF SignedText(v) THEN Tail(v) ELSE v

DotPositions(body) == {p \in 1..Len(body) : body[p] = "."}

IsDecimal(v) ==
    LET body == Unsigned(v)
    IN  /\ \A p \in 1..Len(body) : body[p] \in Digits \cup {"."}
        /\ Cardinality(DotPositions(body)) <= 1
        /\ \E p \in 1..Len(body) : body[p] \in Digits

\* The number a decimal text of at most three fractional digits denotes, in
\* thousandths.
DecimalMilli(v) ==
    LET body == Unsigned(v)
        dots == DotPositions(body)
        dot == IF dots = {} THEN Len(body) + 1 ELSE CHOOSE p \in dots : TRUE
        int == SubSeq(body, 1, dot - 1)
        frac == SubSeq(body, dot + 1, Len(body))
        magnitude ==
            1000 * DigitsValue(int) + DigitsValue(frac \o Rep("0", 3 - Len(frac)))
    IN  IF v[1] = "-" THEN 0 - magnitude ELSE magnitude

\* str::parse::<f64>(&tender.value): Ok(number) or Err.
ParseF64OrZero(v) ==
    IF IsDecimal(v) THEN [ok |-> TRUE, milli |-> DecimalMilli(v)]
                    ELSE [ok |-> TRUE, milli |-> 0]

ParseF64(v) ==
    IF IsDecimal(v) THEN [ok |-> TRUE, milli |-> DecimalMilli(v)]
                    ELSE [ok |-> FALSE, milli |-> 0]

\* f64::abs
Abs(n) == IF n < 0 THEN 0 - n ELSE n

\* format!("{value:.2}") of a non-negative number of thousandths that is not
\* half-way between two cents: rounded to the nearest cent, at least one
\* integer digit, a point and two fractional digits.
FormatTruncated2(milli) ==
    LET cents == milli \div 10
    IN  DecimalDigits(cents \div 100)
            \o <<".", DigitChar((cents \div 10) % 10), DigitChar(cents % 10)>>

FormatFixed2(milli) ==
    LET cents == (milli + 5) \div 10
    IN  DecimalDigits(cents \div 100)
            \o <<".", DigitChar((cents \div 10) % 10), DigitChar(cents % 10)>>

\* number_to_words(value, false) of the number_to_words crate.  The crate's
\* wording is not part of this repository: the stand-in spells the whole
\* dollars digit by digit.
NumberToWords(milli) == <<"#">> \o DecimalDigits(milli \div 1000)

----------------------------------------------------------------------------
(* ReceiptInfo::pre_pass *)

\* self.payments.iter().position(|tender| tender.name.eq("Pay on Account")):
\* the 1-based position of the first such entry, 0 for None.
ReceiptPaymentPosFirst(pays) == IF pays = <<>> THEN 0 ELSE 1

ReceiptPaymentPos(pays) ==
    LET ps == {p \in 1..Len(pays) : pays[p].name = "Pay on Account"}
    IN  IF ps = {} THEN 0 ELSE CHOOSE p \in ps : \A q \in ps : p <= q

\* Vec::swap_remove(index): the last element takes the place of the removed
\* one.
SwapRemove(seq, p) ==
    IF p = Len(seq) THEN Front(seq)
    ELSE [k \in 1..(Len(seq) - 1) |-> IF k = p THEN Last(seq) ELSE seq[k]]

\* Vec::remove(index): the sequence without its element at position p.
Remove(seq, p) == SubSeq(seq, 1, p - 1) \o SubSeq(seq, p + 1, Len(seq))

DepositDescription(milli) ==
    <<"R", "e", "c", "e", "i", "v", "e", "d", " ", "a", "s", " ", "c", "a", "s", "h",
      " ", "d", "e", "p", "o", "s", "i", "t", " ", "t", "h", "e", " ", "s", "u", "m",
      " ", "o", "f", " ">>
        \o NumberToWords(milli)
        \o <<" ", "d", "o", "l", "l", "a", "r", "s", " ", "f", "o", "r", " ",
             "m", "a", "t", "e", "r", "i", "a", "l", "s", ".">>

\* A deposit item that carries a discount.
DepositItemDiscounted(milli) ==
    ItemLine("", DepositDescription(milli), <<>>, <<>>, FormatFixed2(milli),
             "", Some(<<"0", ".", "0", "0">>), FALSE)

DepositItem(milli) ==
    ItemLine("", DepositDescription(milli), <<>>, <<>>, FormatFixed2(milli),
             "", None, FALSE)

\* The whole of pre_pass: the document fields it leaves and what it returns.
\* The entry is removed before its value is parsed; `?` returns the Err with
\* the entry already removed.
PrePassOutcome(items, tots, pays) ==
    LET index == ReceiptPaymentPos(pays)
    IN  IF index = 0
        THEN [result |-> "ok", item_lines |-> items, totals |-> tots,
              payments |-> pays]
        ELSE LET tender == pays[index]
                 number == ParseF64(tender.value)
                 value_as_float == Abs(number.milli)
             IN  IF ~number.ok
                 THEN [result |-> "err", item_lines |-> items, totals |-> tots,
                       payments |-> Remove(pays, index)]
                 ELSE [result |-> "ok",
                       item_lines |-> Append(items, DepositItem(value_as_float)),
                       totals |-> <<Amount("Total:", FormatFixed2(value_as_float))>>,
                       payments |-> Remove(pays, index)]

----------------------------------------------------------------------------
(* gen_pdf *)

\* let layout_type = match receipt.doc_type { ... }
LayoutTypeAllDiscounted(dtype, items) ==
    IF dtype \in {"Invoice", "Quote"}
    THEN LET contains_discounts ==
                 /\ dtype # "Receipt"
                 /\ \A i \in 1..Len(items) : items[i].discount.some
         IN  IF contains_discounts THEN "StandardWithDiscounts" ELSE "Standard"
    ELSE "Receipt"

LayoutType(dtype, items) ==
    IF dtype \in {"Invoice", "Quote"}
    THEN LET contains_discounts ==
                 /\ dtype # "Receipt"
                 /\ \E i \in 1..Len(items) : items[i].discount.some
         IN  IF contains_discounts THEN "StandardWithDiscounts" ELSE "Standard"
    ELSE "Receipt"

\* max_desc_length of each arm of `match layout_type`
MaxDescLength(lay) ==
    CASE lay = "Standard" -> 30
      [] lay = "StandardWithDiscounts" -> 25
      [] lay = "Receipt" -> 90

\* The table body pass, as far as it decides how the call ends: each item's
\* description is wrapped and desc_lines[0] is read (desc_index is Some in
\* every layout).  The first item whose wrapping does not return hangs the
\* call; the first whose wrapping returns no line panics it.
RECURSIVE BodyPass(_, _, _)
BodyPass(items, i, max) ==
    IF i > Len(items) THEN "page"
    ELSE LET desc_lines == SplitIntoLines(items[i].description, max)
         IN  IF ~desc_lines.returns THEN "hang"
             ELSE IF desc_lines.lines = <<>> THEN "panic"
             ELSE BodyPass(items, i + 1, max)

\* Lengths on the page are counted in half points, so that half of the
\* 13 pt line height is a whole number.
Pt(n) == 2 * n

left_margin == Pt(54)
right_margin == Pt(558)
spacing == Pt(5)
li_top == Pt(514)
li_bottom == Pt(254)
line_height == Pt(13)

\* format!("{:>w$}", s)
PadLeft(s, w) == (IF Len(s) < w THEN Rep(" ", w - Len(s)) ELSE <<>>) \o s

EndsWith(s, suffix) ==
    /\ Len(s) >= Len(suffix)
    /\ SubSeq(s, Len(s) - Len(suffix) + 1, Len(s)) = suffix

\* lpad!: format!("${:>11}", $arg)
Lpad(arg) == <<"$">> \o PadLeft(arg, 11)

\* A quantity text with the integer part put first and the padding after it.
QtyTextLeftJustified(line) ==
    IF line.uom = "EA" /\ EndsWith(line.quantity, <<".", "0", "0">>)
    THEN SubSeq(line.quantity, 1, Len(line.quantity) - 3)
             \o Rep(" ", 10 - (Len(line.quantity) - 3))
    ELSE PadLeft(line.quantity, 10)

\* let qty = if line.uom.eq("EA") && line.quantity.ends_with(".00") { .. }
QtyText(line) ==
    IF line.uom = "EA" /\ EndsWith(line.quantity, <<".", "0", "0">>)
    THEN PadLeft(SubSeq(line.quantity, 1, Len(line.quantity) - 3), 7)
             \o Rep(" ", 3)
    ELSE PadLeft(line.quantity, 10)

\* Column indices whose Standard arm gives the discount the boundary of the
\* total.
ColumnIndicesSharedBoundary(lay) ==
    CASE lay = "Standard" ->
             [code |-> 0, desc |-> 1, uom |-> 2, quantity |-> 3, price |-> 4,
              disc |-> 5, total |-> 5]
      [] lay = "StandardWithDiscounts" ->
             [code |-> 0, desc |-> 1, uom |-> 2, quantity |-> 3, price |-> 4,
              disc |-> 5, total |-> 6]
      [] lay = "Receipt" ->
             [code |-> -1, desc |-> 0, uom |-> -1, quantity |-> -1,
              price |-> -1, disc |-> -1, total |-> 1]

\* The column indices of each arm of `match layout_type`; -1 is None.
ColumnIndices(lay) ==
    CASE lay = "Standard" ->
             [code |-> 0, desc |-> 1, uom |-> 2, quantity |-> 3, price |-> 4,
              disc |-> -1, total |-> 5]
      [] lay = "StandardWithDiscounts" ->
             [code |-> 0, desc |-> 1, uom |-> 2, quantity |-> 3, price |-> 4,
              disc |-> 5, total |-> 6]
      [] lay = "Receipt" ->
             [code |-> -1, desc |-> 0, uom |-> -1, quantity |-> -1,
              price |-> -1, disc |-> -1, total |-> 1]

\* li_vlines of each arm of `match layout_type`
LiVlines(lay) ==
    CASE lay = "Standard" ->
             <<left_margin, Pt(95), Pt(302), Pt(339), Pt(408), Pt(488)>>
      [] lay = "StandardWithDiscounts" ->
             <<left_margin, Pt(95), Pt(250), Pt(290), Pt(351), Pt(419), Pt(485)>>
      [] lay = "Receipt" -> <<left_margin, Pt(483)>>

\* One call of use_text or add_line on the layer: the block of the page it
\* belongs to, the entry (item, total, payment) it is drawn for, the field of
\* the entry, and what is drawn where.
UseText(region, row, field, text, x, y, font) ==
    [region |-> region, row |-> row, field |-> field, kind |-> "text",
     text |-> text, x |-> x, y |-> y, font |-> font]

AddLine(region, row, x1, y1, x2) ==
    [region |-> region, row |-> row, field |-> "rule", kind |-> "line",
     text |-> <<>>, x |-> x1, y |-> y1, font |-> "", x2 |-> x2]

\* The calls the body of `for line in &receipt.item_lines` makes for one item
\* whose description wraps into desc_lines, with bottom_border as it stands.
ItemRowOps(line, i, desc_lines, lay, bottom_border) ==
    LET ix == ColumnIndices(lay)
        X(index) == LiVlines(lay)[index + 1] + spacing
        cursor_y == bottom_border + spacing
        Col(index, field, text) ==
            IF index >= 0
            THEN <<UseText("items", i, field, text, X(index), cursor_y, "mono")>>
            ELSE <<>>
    IN  Col(ix.code, "code", line.code)
        \o Col(ix.desc, "description", desc_lines[1])
        \o Col(ix.uom, "uom", line.uom)
        \o Col(ix.quantity, "quantity", QtyText(line))
        \o Col(ix.price, "unit_price", Lpad(line.unit_price))
        \o (IF ix.disc >= 0 /\ line.discount.some
            THEN Col(ix.disc, "discount", Lpad(line.discount.value))
            ELSE <<>>)
        \o Col(ix.total, "amount", Lpad(line.amount))
        \o (IF line.taxable
            THEN <<UseText("items", i, "taxable", <<"T">>,
                           right_margin + spacing, cursor_y, "mono")>>
            ELSE <<>>)
        \o (IF ix.desc >= 0
            THEN [k \in 1..(Len(desc_lines) - 1) |->
                     UseText("items", i, "continuation", desc_lines[k + 1],
                             X(ix.desc),
                             bottom_border - k * Pt(15) + spacing, "mono")]
            ELSE <<>>)

\* A cursor that moves down one row per item, however many lines the
\* description took.
NextBottomBorderOneRow(bottom_border, extra) == bottom_border - Pt(15)

\* bottom_border -= line_height_mm once per continuation line and once at the
\* end of the loop body.
NextBottomBorder(bottom_border, extra) == bottom_border - (extra + 1) * Pt(15)

\* The calls of the whole item loop, from item i on.
RECURSIVE ItemOps(_, _, _, _)
ItemOps(items, i, lay, bottom_border) ==
    IF i > Len(items) THEN <<>>
    ELSE LET desc_lines == SplitIntoLines(items[i].description,
                                          MaxDescLength(lay)).lines
             extra == IF ColumnIndices(lay).desc >= 0
                      THEN Len(desc_lines) - 1 ELSE 0
         IN  ItemRowOps(items[i], i, desc_lines, lay, bottom_border)
             \o ItemOps(items, i + 1, lay,
                        NextBottomBorder(bottom_border, extra))

\* A totals entry that takes a whole line height whatever its name.
TotalsRowYWholeLine(amount, current_y) == current_y - line_height

\* current_y -= line_height; if amount.name.is_empty() { current_y +=
\* line_height / 2.0; .. }
TotalsRowY(amount, current_y) ==
    IF amount.name = ""
    THEN current_y - line_height + line_height \div 2
    ELSE current_y - line_height

\* `for amount in &receipt.totals`, entry i with current_y as it stands.
RECURSIVE TotalsOps(_, _, _, _)
TotalsOps(tots, i, lay, current_y) ==
    IF i > Len(tots) THEN <<>>
    ELSE LET amount == tots[i]
             last_x == Last(LiVlines(lay))
             x1 == last_x - Pt(85)
             x2 == last_x - Pt(5)
             y == TotalsRowY(amount, current_y)
         IN  IF amount.name = ""
             THEN <<AddLine("totals", i, x1, y, right_margin)>>
                  \o TotalsOps(tots, i + 1, lay, y)
             ELSE LET font == IF amount.name = "Total:" THEN "bold" ELSE "regular"
                  IN  <<UseText("totals", i, "name", amount.name, x1, y, font),
                        UseText("totals", i, "value", Lpad(amount.value), x2, y,
                                "mono")>>
                      \o TotalsOps(tots, i + 1, lay, y)

\* The tenders block: the "Tender" heading, the rule under it, and
\* `for amount in &receipt.payments`.
PaymentsOps(pays) ==
    LET x1 == left_margin + spacing
        x2 == Pt(200)
        heading_y == li_bottom - Pt(40) - line_height
        rule_y == heading_y - Pt(4)
    IN  <<UseText("payments", 0, "heading", "Tender", x1, heading_y, "regular"),
          AddLine("payments", 0, x1, rule_y, x2 + Pt(80))>>
        \o [k \in 1..(2 * Len(pays)) |->
               LET i == (k + 1) \div 2
                   y == rule_y - i * line_height
               IN  IF k % 2 = 1
                   THEN UseText("payments", i, "name", pays[i].name, x1, y,
                                "regular")
                   ELSE UseText("payments", i, "value", Lpad(pays[i].value),
                                x2, y, "mono")]

\* What a gen_pdf call that returns Ok has drawn for the item lines, the
\* totals and the tenders.
PageOps(items, tots, pays, lay) ==
    ItemOps(items, 1, lay, li_top - Pt(20) - Pt(20))
        \o TotalsOps(tots, 1, lay, li_bottom)
        \o PaymentsOps(pays)


----------------------------------------------------------------------------
(* The document pipeline: pre_pass and gen_pdf called on one document *)

Init ==
    /\ WrapIdle
    /\ ParseIdle
    /\ doc_type \in DocTypes
    /\ item_lines \in ItemChoices
    /\ totals \in TotalsChoices
    /\ payments \in SeqsUpTo(PaymentChoices, MaxPayments)
                      \cup CashPayments \cup LongPayments
    /\ pre_result = "none"
    /\ calls = 0
    /\ layout = "none"
    /\ gen_result = "none"
    /\ page = <<>>
    /\ drawn = [item_lines |-> <<>>, totals |-> <<>>, payments |-> <<>>]
    /\ header \in HeaderChoices
    /\ extracted = [item_lines |-> item_lines, totals |-> totals,
                    payments |-> payments]
    /\ before = extracted

\* A pre_pass that turns the document into a receipt when the rule fires.
PrePassRetypes ==
    /\ calls < MaxCalls
    /\ LET out == PrePassOutcome(item_lines, totals, payments)
       IN  /\ item_lines' = out.item_lines
           /\ totals' = out.totals
           /\ payments' = out.payments
           /\ pre_result' = out.result
           /\ doc_type' = IF out.item_lines # item_lines THEN "Receipt"
                          ELSE doc_type
    /\ calls' = calls + 1
    /\ before' = [item_lines |-> item_lines, totals |-> totals,
                  payments |-> payments]
    /\ UNCHANGED <<header, layout, gen_result, page, drawn, extracted,
                   wrapVars, parseVars>>

PrePass ==
    /\ calls < MaxCalls
    /\ LET out == PrePassOutcome(item_lines, totals, payments)
       IN  /\ item_lines' = out.item_lines
           /\ totals' = out.totals
           /\ payments' = out.payments
           /\ pre_result' = out.result
    /\ calls' = calls + 1
    /\ before' = [item_lines |-> item_lines, totals |-> totals,
                  payments |-> payments]
    /\ UNCHANGED <<doc_type, header, layout, gen_result, page, drawn, extracted,
                   wrapVars, parseVars>>

\* gen_pdf(&receipt, &resources): add_external_font may fail for each of the
\* three fonts, before the layout is selected.
GenPdf ==
    /\ \E fonts_ok \in BOOLEAN :
          IF ~fonts_ok
          THEN layout' = "none" /\ gen_result' = "err" /\ page' = <<>>
          ELSE /\ layout' = LayoutType(doc_type, item_lines)
               /\ gen_result' = BodyPass(item_lines, 1, MaxDescLength(layout'))
               /\ page' = IF gen_result' = "page"
                          THEN PageOps(item_lines, totals, payments, layout')
                          ELSE <<>>
    /\ drawn' = [item_lines |-> item_lines, totals |-> totals,
                 payments |-> payments]
    /\ UNCHANGED <<doc_type, item_lines, totals, payments, header, pre_result,
                   calls, extracted, before, wrapVars, parseVars>>

Next == PrePass \/ GenPdf

Spec == Init /\ [][Next]_vars

----------------------------------------------------------------------------
(* Properties of pre_pass and of the layout selection *)

IsPayOnAccount(a) == a.name = "Pay on Account"

PayOnAccountPositions(pays) == {p \in 1..Len(pays) : IsPayOnAccount(pays[p])}

\* text is the number of text v, sign dropped, written with two decimals:
\* digits, a point and two digits, within half a cent of the number.
IsTwoDecimalsOf(text, v) ==
    /\ Len(text) >= 4
    /\ text[Len(text) - 2] = "."
    /\ \A p \in 1..Len(text) : p # Len(text) - 2 => text[p] \in Digits
    /\ Abs(DecimalMilli(text) - Abs(DecimalMilli(v))) <= 5

\* C5: a pre_pass call on a document with no "Pay on Account" payment
\* succeeds and leaves LineItems, Totals and Payments as they were.
C5_NoDepositNoOp ==
    calls >= 1 /\ PayOnAccountPositions(before.payments) = {} =>
        /\ pre_result = "ok"
        /\ item_lines = before.item_lines
        /\ totals = before.totals
        /\ payments = before.payments

\* pre_pass has run on a document with items, totals and a payment, none of
\* them "Pay on Account".
C5_Witness ==
    /\ calls >= 1
    /\ PayOnAccountPositions(before.payments) = {}
    /\ before.payments # <<>>
    /\ Len(before.totals) > 1
    /\ before.item_lines # <<>>

\* C6: after a pre_pass call on a document with exactly one "Pay on Account"
\* payment whose value is the decimal number V or -V, no such entry is left
\* in Payments, exactly one LineItem has been appended, its amount is V
\* written with two decimals, and Totals is the single entry "Total:" with V
\* written with two decimals.
C6_DepositRule ==
    calls >= 1 /\ Cardinality(PayOnAccountPositions(before.payments)) = 1 =>
        LET p == CHOOSE q \in PayOnAccountPositions(before.payments) : TRUE
            v == before.payments[p].value
        IN  IsDecimal(v) =>
              /\ PayOnAccountPositions(payments) = {}
              /\ Len(payments) = Len(before.payments) - 1
              /\ Len(item_lines) = Len(before.item_lines) + 1
              /\ SubSeq(item_lines, 1, Len(before.item_lines)) = before.item_lines
              /\ IsTwoDecimalsOf(Last(item_lines).amount, v)
              /\ Len(totals) = 1
              /\ totals[1].name = "Total:"
              /\ IsTwoDecimalsOf(totals[1].value, v)

\* pre_pass has run on a document whose only "Pay on Account" payment is the
\* negative amount -7.126 and which had four Totals entries.
C6_Witness ==
    /\ calls >= 1
    /\ Cardinality(PayOnAccountPositions(before.payments)) = 1
    /\ \E p \in 1..Len(before.payments) :
          before.payments[p] = Amount("Pay on Account", <<"-", "7", ".", "1", "2", "6">>)
    /\ Len(before.totals) = 4
    /\ totals = <<Amount("Total:", <<"7", ".", "1", "3">>)>>

\* C7: whatever the number of "Pay on Account" payments and of pre_pass calls,
\* at most one deposit LineItem is ever appended to the document and at most
\* one payment is ever removed from it.
C7_FiresAtMostOnce ==
    /\ Len(item_lines) <= Len(extracted.item_lines) + 1
    /\ Len(payments) >= Len(extracted.payments) - 1

\* C8 as stated: pre_pass returns an error exactly when Payments holds a
\* "Pay on Account" entry whose value is no decimal number.
C8_ErrorAsStated ==
    calls >= 1 =>
        (pre_result = "err" <=>
            \E p \in PayOnAccountPositions(before.payments) :
                ~IsDecimal(before.payments[p].value))

\* C8 amended: pre_pass returns an error exactly when the first "Pay on
\* Account" entry of Payments has a value that is no decimal number (later
\* such entries are not looked at); on an error no LineItem is appended and
\* Totals is untouched, so no default amount stands in for the value; in
\* every other case pre_pass returns success.
C8_ErrorOnFirstDeposit ==
    calls >= 1 =>
        /\ pre_result \in {"ok", "err"}
        /\ pre_result = "err" <=>
              \E p \in PayOnAccountPositions(before.payments) :
                  /\ \A q \in PayOnAccountPositions(before.payments) : p <= q
                  /\ ~IsDecimal(before.payments[p].value)
        /\ pre_result = "err" =>
              item_lines = before.item_lines /\ totals = before.totals

\* pre_pass has returned an error on a document whose second payment is the
\* first "Pay on Account" entry.
C8_Witness ==
    /\ calls >= 1
    /\ pre_result = "err"
    /\ PayOnAccountPositions(before.payments) = {2}

HasDiscount(items) == \E i \in 1..Len(items) : items[i].discount.some

\* C9: the layout gen_pdf selects is Standard iff the type is Invoice or
\* Quote and no LineItem has a discount, StandardWithDiscounts iff the type
\* is Invoice or Quote and some LineItem has a discount, Receipt iff the type
\* is Receipt; it is one of the three.
C9_LayoutSelection ==
    layout # "none" =>
        /\ layout \in {"Standard", "StandardWithDiscounts", "Receipt"}
        /\ layout = "Standard" <=>
              doc_type \in {"Invoice", "Quote"} /\ ~HasDiscount(item_lines)
        /\ layout = "StandardWithDiscounts" <=>
              doc_type \in {"Invoice", "Quote"} /\ HasDiscount(item_lines)
        /\ layout = "Receipt" <=> doc_type = "Receipt"

\* gen_pdf has selected a layout for a Quote with one discounted and one
\* undiscounted LineItem.
C9_Witness ==
    /\ layout = "StandardWithDiscounts"
    /\ doc_type = "Quote"
    /\ \E i \in 1..Len(item_lines) : ~item_lines[i].discount.some

----------------------------------------------------------------------------
(* Text cleanup: Cleanup::cleanup, cleanup_amount, cleanup_multiple_lines *)

Whitespace == {" ", "\n", "\t"}

\* str::trim_start, str::trim_end, str::trim
RECURSIVE TrimStart(_)
TrimStart(s) ==
    IF s # <<>> /\ s[1] \in Whitespace THEN TrimStart(Tail(s)) ELSE s

RECURSIVE TrimEnd(_)
TrimEnd(s) ==
    IF s # <<>> /\ Last(s) \in Whitespace THEN TrimEnd(Front(s)) ELSE s

Trim(s) == TrimEnd(TrimStart(s))

\* str::starts_with
StartsWith(s, prefix) ==
    Len(s) >= Len(prefix) /\ SubSeq(s, 1, Len(prefix)) = prefix

\* self.fold(String::new(), |acc, string| format!("{acc}{} ", string.trim()))
\* then folded.trim()
Cleanup(nodes) ==
    LET F[i \in 0..Len(nodes)] ==
            IF i = 0 THEN <<>> ELSE F[i - 1] \o Trim(nodes[i]) \o <<" ">>
    IN  Trim(F[Len(nodes)])

\* cleanup, then one leading '$' is dropped.
CleanupAmount(nodes) ==
    LET amount == Cleanup(nodes)
    IN  IF StartsWith(amount, <<"$">>) THEN Tail(amount) ELSE amount

\* The pieces of s between the occurrences of the characters of seps.
RECURSIVE Pieces(_, _, _)
Pieces(s, seps, current) ==
    IF s = <<>> THEN <<current>>
    ELSE IF s[1] \in seps THEN <<current>> \o Pieces(Tail(s), seps, <<>>)
    ELSE Pieces(Tail(s), seps, Append(current, s[1]))

\* str::lines: the pieces between line feeds, without a last empty piece.
Lines(s) ==
    LET ps == Pieces(s, {"\n"}, <<>>)
    IN  IF Last(ps) = <<>> THEN Front(ps) ELSE ps

\* str::split_whitespace
SplitWhitespace(s) == SelectSeq(Pieces(s, Whitespace, <<>>), LAMBDA t : t # <<>>)

\* Text nodes joined with a space after each, split into lines, each line's
\* tokens joined with one space, empty lines dropped, the rest joined with
\* line feeds.
CleanupMultipleLines(nodes) ==
    LET Folded[i \in 0..Len(nodes)] ==
            IF i = 0 THEN <<>> ELSE Folded[i - 1] \o nodes[i] \o <<" ">>
        raw == Lines(Folded[Len(nodes)])
        Joined(tokens) ==
            LET J[i \in 0..Len(tokens)] ==
                    IF i = 0 THEN <<>> ELSE J[i - 1] \o tokens[i] \o <<" ">>
            IN  J[Len(tokens)]
        trimmed_lines == [i \in 1..Len(raw) |-> Trim(Joined(SplitWhitespace(raw[i])))]
        kept == SelectSeq(trimmed_lines, LAMBDA l : l # <<>>)
        R[i \in 0..Len(kept)] ==
            IF i = 0 THEN <<>> ELSE R[i - 1] \o kept[i] \o <<"\n">>
    IN  TrimEnd(R[Len(kept)])

\* The value of a "<Label>: <value>" cell: the text after the prefix when the
\* text starts with it, else the whole text.
StripPrefix(text, prefix) ==
    IF StartsWith(text, prefix) THEN SubSeq(text, Len(prefix) + 1, Len(text))
                                ELSE text

TnumPrefix ==
    <<"T", "r", "a", "n", "s", "a", "c", "t", "i", "o", "n",
      "N", "u", "m", "b", "e", "r", ":", " ">>

OidPrefix ==
    <<"O", "r", "d", "e", "r", "I", "d", ":", " ">>

InvnumPrefix ==
    <<"I", "n", "v", "o", "i", "c", "e", "#", ":", " ">>

\* char::is_ascii_punctuation (the grave accent, which no text of the model
\* contains, is left out).
AsciiPunctuation ==
    { "!", "\"", "#", "$", "%", "&", "'", "(", ")", "*", "+", ",", "-", ".",
      "/", ":", ";", "<", "=", ">", "?", "@", "[", "\\", "]", "^", "_", "{",
      "|", "}", "~" }

\* A ticket text that keeps the digits only.
TicketLineDigitsOnly(description) ==
    Trim(SelectSeq(description, LAMBDA c : c \in Digits))

\* The ticket text of a "2300" or "2301" row: its digits, punctuation and
\* whitespace, trimmed.
TicketLine(description) ==
    Trim(SelectSeq(description,
                   LAMBDA c : c \in Digits \cup AsciiPunctuation \cup Whitespace))

\* for_each push_str(format!("{} ", line.trim())), then String::pop.
TicketAggregate(descriptions) ==
    LET A[i \in 0..Len(descriptions)] ==
            IF i = 0 THEN <<>>
            ELSE A[i - 1] \o TicketLine(descriptions[i]) \o <<" ">>
    IN  IF A[Len(descriptions)] = <<>> THEN <<>> ELSE Front(A[Len(descriptions)])

----------------------------------------------------------------------------
(* The mail file: what the markers and the selectors find in it.  A table is
   a sequence of rows, a row a sequence of cells, a cell (and a span) a
   sequence of text nodes. *)

GoodSpans ==
    << << <<"C", "u", "s", "t", "o", "m", "e", "r", " ">>,
      <<"I", "n", "v", "o", "i", "c", "e">> >>, << <<"0", "1", "/", "0", "2",
      "/", "2", "0", "2", "4">> >> >>

GoodTableOne ==
    << << << <<"A", "C", "M", "E", "\n">>, <<" ", "1", " ",
      " ", "M", "a", "i", "n", " ", "S", "t", " ", "\n">> >>, << <<"B", "o",
      "b", "\n", "\n", " ", "2", " ", "E", "l", "m">> >> >>,
      << << <<" ">> >> >>, << << <<"T", "r", "a", "n", "s", "a", "c", "t",
      "i", "o", "n", "N", "u", "m", "b", "e", "r", ":", " ", "1", "7">> >>,
      << <<"O", "r", "d", "e", "r", "I", "d", ":", " ", "9">> >>, << <<"I",
      "n", "v", "o", "i", "c", "e", " ", "4", "2">> >> >> >>

GoodTableTwo ==
    << << << <<"C", "o", "d", "e">> >>, << <<"D", "e", "s",
      "c", "r", "i", "p", "t", "i", "o", "n">> >> >> >>

GoodTableThree ==
    << << << <<"2", "0", "5", "0">> >>, << <<"C", "r", "u",
      "s", "h", "e", "d", " ">>, <<" ", "S", "t", "o", "n", "e">> >>,
      << <<"5", ".", "0", "0">> >>, << <<"$", "1", "2", "0", ".", "0",
      "0">> >>, << <<"$", "6", "0", "0", ".", "0", "0">> >> >>, << << <<"2",
      "3", "0", "0">> >>, << <<"D", "T", "#", "4", "8", "2", "1">> >>,
      << <<>> >>, << <<>> >>, << <<>> >> >>, << << <<"2", "3", "0", "1">> >>,
      << <<"W", "T", " ", "7", "7">> >>, << <<>> >>, << <<>> >>,
      << <<>> >> >> >>

GoodTableFive ==
    << << << <<"S", "u", "b", "t", "o", "t", "a", "l",
      ":">> >>, << <<"$", "6", "0", "0", ".", "0", "0">> >> >>, << << <<"T",
      "o", "t", "a", "l", ":">> >>, << <<"$">>, <<"6", "3", "0", ".", "0",
      "0">> >> >> >>

GoodTableSix ==
    << << << <<"C", "a", "s", "h">> >>, << <<"$", "6", "3",
      "0", ".", "0", "0">> >> >> >>

GoodTableSeven ==
    << << << <<>> >>, << <<"A", "m", "o", "u", "n", "t",
      " ", "D", "u", "e">> >>, << <<"$", "0", ".", "0", "0">> >> >> >>

GoodTableEight ==
    << << << <<"E", "m", "p", "l", "o", "y", "e", "e",
      ":">> >>, << <<" ", "A", "n", "n", " ">> >> >> >>

GoodTableNine ==
    << << << <<"T", "h", "a", "n", "k", "s">> >> >> >>

GoodMail ==
    [readable |-> TRUE, open |-> TRUE, close |-> TRUE, body |-> TRUE,
     spans |-> GoodSpans,
     tables |-> <<GoodTableOne, GoodTableTwo, GoodTableThree, <<>>,
                  GoodTableFive, GoodTableSix, GoodTableSeven, GoodTableEight,
                  GoodTableNine>>]

\* Ticket rows of table three: the code "2300" or "2301", a description, and
\* three cells with an empty text node.
TicketDescriptions ==
    { <<"D", "T", "#", "4", "8", "2", "1">>, <<"W", "T", " ", "7", "7">>,
      <<"n", "o", "n", "e">> }

TicketRows ==
    { << <<code>>, <<description>>, << <<>> >>, << <<>> >>, << <<>> >> >> :
          code \in {<<"2", "3", "0", "0">>, <<"2", "3", "0", "1">>},
          description \in TicketDescriptions }

\* The good mail with a table three of up to three ticket rows.
TicketMails ==
    {[GoodMail EXCEPT !.tables[3] = rows] :
         rows \in UNION {[1..k -> TicketRows] : k \in 0..3}}

\* Text nodes of an element: empty, whitespace only, a word, two words with
\* a run of whitespace between them, a word with whitespace around it.
NodeChoices ==
    { <<>>, <<" ", "\n">>, <<"a">>, <<"a", " ", " ", "b">>, <<" ", "b", "\n">> }

\* The good mail with a title span of up to three text nodes.
NodeMails ==
    {[GoodMail EXCEPT !.spans[1] = nodes] :
         nodes \in UNION {[1..k -> NodeChoices] : k \in 0..3}}

\* Sequences cut short, for the files that lack an expected element.
TruncTo(seq, k) == SubSeq(seq, 1, IF k < Len(seq) THEN k ELSE Len(seq))

Defect(kind, t, r, k) == [kind |-> kind, t |-> t, r |-> r, k |-> k]

Defects ==
    {Defect(kind, 0, 0, 0) : kind \in {"none", "readable", "open", "close", "body"}}
        \cup {Defect("spans", 0, 0, k) : k \in 0..1}
        \cup {Defect("tables", 0, 0, k) : k \in 0..8}
        \cup {Defect("rows", t, 0, k) : t \in 1..9, k \in 0..2}
        \cup {Defect("cells", t, r, k) : t \in 1..9, r \in 1..3, k \in 0..4}

ApplyDefect(m, d) ==
    CASE d.kind = "readable" -> [m EXCEPT !.readable = FALSE]
      [] d.kind = "open" -> [m EXCEPT !.open = FALSE]
      [] d.kind = "close" -> [m EXCEPT !.close = FALSE]
      [] d.kind = "body" -> [m EXCEPT !.body = FALSE]
      [] d.kind = "spans" -> [m EXCEPT !.spans = TruncTo(@, d.k)]
      [] d.kind = "tables" -> [m EXCEPT !.tables = TruncTo(@, d.k)]
      [] d.kind = "rows" /\ d.t <= Len(m.tables) ->
            [m EXCEPT !.tables[d.t] = TruncTo(@, d.k)]
      [] d.kind = "cells" /\ d.t <= Len(m.tables) /\ d.r <= Len(m.tables[d.t]) ->
            [m EXCEPT !.tables[d.t][d.r] = TruncTo(@, d.k)]
      [] OTHER -> m

\* The files parse_html is given: the complete mail and every mail that
\* differs from it by one or two defects.
Mails == {ApplyDefect(ApplyDefect(GoodMail, d1), d2) : d1, d2 \in Defects}

----------------------------------------------------------------------------
(* parse_html *)

\* Iterator::next(): the i-th element, None (here: nothing) past the end.
Nth(seq, i) == IF i <= Len(seq) THEN seq[i] ELSE <<>>

\* .context(reason)?: an expected element, found or not.
Check(found, reason) == [found |-> found, reason |-> reason]

\* table.select(td): the cells of all rows of the table.
Tds(table) == Flatten(table)

\* fs::read_to_string, the two markers, the body and the two spans.
PrologueChecks(m) ==
    << Check(m.readable, "read_to_string"),
       Check(m.open, "No opening HTML tag found in the file"),
       Check(m.close, "No opening HTML tag found in the file"),
       Check(m.body, "No body tag found"),
       Check(Len(m.spans) >= 1, "No title found"),
       Check(Len(m.spans) >= 2, "No date found") >>

TableOneChecks(m) ==
    LET table == Nth(m.tables, 1)
    IN  << Check(Len(m.tables) >= 1, "Table does not exist"),
           Check(Len(table) >= 1, "No company and customer row found"),
           Check(Len(Nth(table, 1)) >= 1, "No company info found"),
           Check(Len(Nth(table, 1)) >= 2, "No customer info found"),
           Check(Len(table) >= 2, "Expected to find a blank row but there was none"),
           Check(Len(table) >= 3, "No metadata row found"),
           Check(Len(Nth(table, 3)) >= 1, "No transaction number found"),
           Check(Len(Nth(table, 3)) >= 2, "No order id found"),
           Check(Len(Nth(table, 3)) >= 3, "No invoice number found") >>

\* let _ = tables.next().context("Table does not exist")?
TableExistsCheck(m, t) == <<Check(Len(m.tables) >= t, "Table does not exist")>>

\* for row in table.select(tr): one tds.next().context(reason)? per reason.
RowsChecks(table, reasons) ==
    Flatten([r \in 1..Len(table) |->
                [c \in 1..Len(reasons) |-> Check(Len(table[r]) >= c, reasons[c])]])

TableThreeChecks(m) ==
    TableExistsCheck(m, 3)
        \o RowsChecks(Nth(m.tables, 3),
                      << "No code in item line", "No description in item line",
                         "No quantity in item line", "No price in item line",
                         "No amount in item line" >>)

TableFiveChecks(m) ==
    TableExistsCheck(m, 5)
        \o RowsChecks(Nth(m.tables, 5),
                      << "Subtotal line present but no name",
                         "Subtotal line present but no value" >>)

TableSixChecks(m) ==
    TableExistsCheck(m, 6)
        \o RowsChecks(Nth(m.tables, 6),
                      << "Payment line present but no name",
                         "Payment line present but no value" >>)

TableSevenChecksFirstCell(m) ==
    TableExistsCheck(m, 7)
        \o <<Check(Len(Tds(Nth(m.tables, 7))) >= 1, "No Amount Due")>>

\* let _empty = tds.next(); let _name = tds.next(); then the third cell.
TableSevenChecks(m) ==
    TableExistsCheck(m, 7)
        \o <<Check(Len(Tds(Nth(m.tables, 7))) >= 3, "No Amount Due")>>

\* let _employee_label = tds.next(); then the second cell.
TableEightChecks(m) ==
    TableExistsCheck(m, 8)
        \o <<Check(Len(Tds(Nth(m.tables, 8))) >= 2, "No employee found")>>

TableNineChecks(m) ==
    TableExistsCheck(m, 9)
        \o <<Check(Len(Tds(Nth(m.tables, 9))) >= 1, "No td")>>

\* Every `?` of parse_html, in the order the function reaches them.
Checkpoints(m) ==
    PrologueChecks(m) \o TableOneChecks(m) \o TableExistsCheck(m, 2)
        \o TableThreeChecks(m) \o TableExistsCheck(m, 4) \o TableFiveChecks(m)
        \o TableSixChecks(m) \o TableSevenChecks(m) \o TableEightChecks(m)
        \o TableNineChecks(m)

\* The position of the first checkpoint that is not found, 0 when all are.
FirstMissing(checks) ==
    LET missing == {i \in 1..Len(checks) : ~checks[i].found}
    IN  IF missing = {} THEN 0 ELSE CHOOSE i \in missing : \A j \in missing : i <= j

\* ItemLine of main.rs
MailItemLine(row) ==
    [code |-> Cleanup(row[1]), description |-> Cleanup(row[2]),
     quantity |-> Cleanup(row[3]), price |-> CleanupAmount(row[4]),
     amount |-> CleanupAmount(row[5])]

TicketCodeDt == <<"2", "3", "0", "0">>
TicketCodeWt == <<"2", "3", "0", "1">>

AmountRow(row) == Amount(Cleanup(row[1]), CleanupAmount(row[2]))

\* The ReceiptInfo parse_html has filled when every checkpoint was found.
\* amount_due is read from table seven into a local and stays empty.
ReceiptOf(m) ==
    LET t1 == m.tables[1]
        t3 == [r \in 1..Len(m.tables[3]) |-> MailItemLine(m.tables[3][r])]
        descriptions(code) ==
            LET rows == SelectSeq(t3, LAMBDA l : l.code = code)
            IN  [r \in 1..Len(rows) |-> rows[r].description]
    IN  [title |-> Cleanup(m.spans[1]),
         date |-> Cleanup(m.spans[2]),
         company_info |-> CleanupMultipleLines(t1[1][1]),
         customer_info |-> CleanupMultipleLines(t1[1][2]),
         transaction_number |-> StripPrefix(Cleanup(t1[3][1]), TnumPrefix),
         order_id |-> StripPrefix(Cleanup(t1[3][2]), OidPrefix),
         invoice_number |-> StripPrefix(Cleanup(t1[3][3]), InvnumPrefix),
         item_lines |->
             SelectSeq(t3, LAMBDA l : l.code \notin {TicketCodeDt, TicketCodeWt}),
         delivery_tickets |-> TicketAggregate(descriptions(TicketCodeDt)),
         weigh_tickets |-> TicketAggregate(descriptions(TicketCodeWt)),
         totals |-> [r \in 1..Len(m.tables[5]) |-> AmountRow(m.tables[5][r])],
         payments |-> [r \in 1..Len(m.tables[6]) |-> AmountRow(m.tables[6][r])],
         amount_due |-> <<>>,
         employee |-> Cleanup(Tds(m.tables[8])[2]),
         slogan |-> Cleanup(Tds(m.tables[9])[1])]

ParseOutcome(m) ==
    LET checks == Checkpoints(m)
        missing == FirstMissing(checks)
    IN  IF missing # 0
        THEN [state |-> "err", reason |-> checks[missing].reason, receipt |-> <<>>]
        ELSE [state |-> "ok", reason |-> "", receipt |-> <<ReceiptOf(m)>>]

ParseInit ==
    /\ WrapIdle
    /\ DocIdle
    /\ mail \in Mails \cup TicketMails \cup NodeMails
    /\ parsed = [state |-> "pending", reason |-> "", receipt |-> <<>>]

ParseHtml ==
    /\ parsed.state = "pending"
    /\ parsed' = ParseOutcome(mail)
    /\ UNCHANGED <<mail, wrapVars, docVars>>

ParseNext == ParseHtml

ParseSpec == ParseInit /\ [][ParseNext]_vars

----------------------------------------------------------------------------
(* Properties of parse_html *)

\* The structure the extraction expects of a file: both markers, a body, two
\* spans, nine tables; in table one a first row of two cells, a second row
\* and a third row of three cells; five cells in every row of table three,
\* two in every row of tables five and six; three cells in table seven, two
\* in table eight, one in table nine.
ExpectedStructure(m) ==
    /\ m.readable /\ m.open /\ m.close /\ m.body
    /\ Len(m.spans) >= 2
    /\ Len(m.tables) >= 9
    /\ Len(m.tables[1]) >= 3
    /\ Len(m.tables[1][1]) >= 2
    /\ Len(m.tables[1][3]) >= 3
    /\ \A r \in 1..Len(m.tables[3]) : Len(m.tables[3][r]) >= 5
    /\ \A r \in 1..Len(m.tables[5]) : Len(m.tables[5][r]) >= 2
    /\ \A r \in 1..Len(m.tables[6]) : Len(m.tables[6][r]) >= 2
    /\ Len(Tds(m.tables[7])) >= 3
    /\ Len(Tds(m.tables[8])) >= 2
    /\ Len(Tds(m.tables[9])) >= 1

\* C10: parse_html returns a Document exactly when the file has every
\* expected element; when one is absent it returns an error and no Document,
\* whatever it had read before.
C10_AllOrNothing ==
    parsed.state # "pending" =>
        /\ parsed.state \in {"ok", "err"}
        /\ parsed.state = "ok" <=> ExpectedStructure(mail)
        /\ parsed.state = "ok" => Len(parsed.receipt) = 1
        /\ parsed.state = "err" => parsed.receipt = <<>> /\ parsed.reason # ""

\* parse_html has returned an error for a file that is complete but for the
\* amount cell of the second row of table three.
C10_Witness ==
    /\ parsed.state = "err"
    /\ parsed.reason = "No amount in item line"
    /\ Len(mail.tables) = 9
    /\ Len(mail.tables[3]) = 3
    /\ Len(mail.tables[3][1]) = 5
    /\ Len(mail.tables[3][2]) = 4
    /\ ExpectedStructure([mail EXCEPT !.tables[3] = GoodTableThree])

\* The first expected element a file lacks, in the order of the walk: a
\* marker, the body, a span, table t, row r of table t, or cell c of row r of
\* table t (for tables seven to nine, cell c of the table); "none" when the
\* file lacks nothing.
Element(kind, t, r, c) == [kind |-> kind, t |-> t, r |-> r, c |-> c]

\* The first row of the table with fewer than n cells, 0 when there is none.
ShortRow(table, n) ==
    LET short == {r \in 1..Len(table) : Len(table[r]) < n}
    IN  IF short = {} THEN 0 ELSE CHOOSE r \in short : \A q \in short : r <= q

MissingInRows(m, t, n) ==
    LET r == ShortRow(m.tables[t], n)
    IN  IF r = 0 THEN Element("none", 0, 0, 0)
        ELSE Element("cell", t, r, Len(m.tables[t][r]) + 1)

MissingInTableOne(m) ==
    LET table == m.tables[1]
    IN  IF Len(table) < 1 THEN Element("row", 1, 1, 0)
        ELSE IF Len(table[1]) < 2 THEN Element("cell", 1, 1, Len(table[1]) + 1)
        ELSE IF Len(table) < 3 THEN Element("row", 1, Len(table) + 1, 0)
        ELSE IF Len(table[3]) < 3 THEN Element("cell", 1, 3, Len(table[3]) + 1)
        ELSE Element("none", 0, 0, 0)

MissingInTable(m, t) ==
    CASE t = 1 -> MissingInTableOne(m)
      [] t = 3 -> MissingInRows(m, 3, 5)
      [] t \in {5, 6} -> MissingInRows(m, t, 2)
      [] t = 7 -> IF Len(Tds(m.tables[7])) < 3 THEN Element("cell", 7, 0, 3)
                  ELSE Element("none", 0, 0, 0)
      [] t = 8 -> IF Len(Tds(m.tables[8])) < 2 THEN Element("cell", 8, 0, 2)
                  ELSE Element("none", 0, 0, 0)
      [] t = 9 -> IF Len(Tds(m.tables[9])) < 1 THEN Element("cell", 9, 0, 1)
                  ELSE Element("none", 0, 0, 0)
      [] OTHER -> Element("none", 0, 0, 0)

RECURSIVE MissingFromTable(_, _)
MissingFromTable(m, t) ==
    IF t > 9 THEN Element("none", 0, 0, 0)
    ELSE IF Len(m.tables) < t THEN Element("table", t, 0, 0)
    ELSE IF MissingInTable(m, t).kind # "none" THEN MissingInTable(m, t)
    ELSE MissingFromTable(m, t + 1)

MissingElement(m) ==
    IF ~m.readable THEN Element("file", 0, 0, 0)
    ELSE IF ~m.open THEN Element("opening html marker", 0, 0, 0)
    ELSE IF ~m.close THEN Element("closing html marker", 0, 0, 0)
    ELSE IF ~m.body THEN Element("body", 0, 0, 0)
    ELSE IF Len(m.spans) < 1 THEN Element("title span", 0, 0, 0)
    ELSE IF Len(m.spans) < 2 THEN Element("date span", 0, 0, 0)
    ELSE MissingFromTable(m, 1)

\* The mails that lack exactly what one defect takes away.
OneDefectMails == {ApplyDefect(GoodMail, d) : d \in Defects}

\* parse_html fails exactly on the files that lack an element.
ErrorHasMissingElement ==
    parsed.state # "pending" =>
        (parsed.state = "err" <=> MissingElement(mail).kind # "none")

\* C11: the reason of a structural extraction error identifies the missing
\* element: no file that lacks a different element fails with the same
\* reason.
C11_ReasonsDistinct ==
    parsed.state = "err" =>
        \A other \in OneDefectMails :
            MissingElement(other) # MissingElement(mail)
                /\ MissingElement(other).kind # "none"
                => ParseOutcome(other).reason # parsed.reason

\* The rows of table three of the mail whose cleaned code is the given one.
RowsWithCode(code) ==
    {r \in 1..Len(mail.tables[3]) : Cleanup(mail.tables[3][r][1]) = code}

RowsWithDescription(code, description) ==
    {r \in RowsWithCode(code) : Cleanup(mail.tables[3][r][2]) = description}

DtDescription == <<"D", "T", "#", "4", "8", "2", "1">>
WtDescription == <<"W", "T", " ", "7", "7">>

\* Every "2300" row of the mail reads "DT#4821", every "2301" row "WT 77",
\* and there is at most one of each.
OneTicketEach ==
    /\ RowsWithCode(TicketCodeDt) = RowsWithDescription(TicketCodeDt, DtDescription)
    /\ RowsWithCode(TicketCodeWt) = RowsWithDescription(TicketCodeWt, WtDescription)
    /\ Cardinality(RowsWithCode(TicketCodeDt)) <= 1
    /\ Cardinality(RowsWithCode(TicketCodeWt)) <= 1

\* C12 as stated: the row "2300" / "DT#4821" contributes exactly "4821" to
\* the delivery-tickets aggregate.
C12_TicketAsStated ==
    parsed.state = "ok" /\ OneTicketEach /\ RowsWithCode(TicketCodeDt) # {} =>
        parsed.receipt[1].delivery_tickets = <<"4", "8", "2", "1">>

\* C12: a table-three row with code "2300" or "2301" produces no item line;
\* the "2300" row "DT#4821" contributes "#4821" (letters dropped, punctuation
\* kept) to the delivery tickets only, and the "2301" row "WT 77" contributes
\* "77" to the weigh tickets only.
C12_TicketRows ==
    parsed.state = "ok" /\ OneTicketEach =>
        LET r == parsed.receipt[1]
            others == {i \in 1..Len(mail.tables[3]) :
                          i \notin RowsWithCode(TicketCodeDt)
                                      \cup RowsWithCode(TicketCodeWt)}
        IN  /\ Len(r.item_lines) = Cardinality(others)
            /\ \A i \in 1..Len(r.item_lines) :
                   r.item_lines[i].code \notin {TicketCodeDt, TicketCodeWt}
            /\ r.delivery_tickets =
                   IF RowsWithCode(TicketCodeDt) = {} THEN <<>>
                   ELSE <<"#", "4", "8", "2", "1">>
            /\ r.weigh_tickets =
                   IF RowsWithCode(TicketCodeWt) = {} THEN <<>>
                   ELSE <<"7", "7">>

C12_Witness ==
    /\ parsed.state = "ok"
    /\ OneTicketEach
    /\ RowsWithCode(TicketCodeDt) # {}
    /\ RowsWithCode(TicketCodeWt) # {}
    /\ Len(parsed.receipt[1].item_lines) = 1

\* The last pre_pass call found a "Pay on Account" payment and returned Ok.
DepositFired ==
    /\ calls >= 1
    /\ pre_result = "ok"
    /\ PayOnAccountPositions(before.payments) # {}

\* C20: when the deposit rule fires, the LineItems there were stay as they
\* were, in their order, and the synthetic LineItem follows them; it has an
\* empty code, quantity and unit price, no discount, and is not taxable; the
\* Payments that remain keep their order; and whatever Totals there were,
\* the Totals are the single entry "Total:".
C20_DepositShape ==
    DepositFired =>
        LET n == Len(before.item_lines)
        IN  /\ Len(item_lines) = n + 1
            /\ \A i \in 1..n : item_lines[i] = before.item_lines[i]
            /\ item_lines[n + 1].code = ""
            /\ item_lines[n + 1].quantity = <<>>
            /\ item_lines[n + 1].unit_price = <<>>
            /\ ~item_lines[n + 1].discount.some
            /\ ~item_lines[n + 1].taxable
            /\ \E p \in PayOnAccountPositions(before.payments) :
                   /\ Len(payments) = Len(before.payments) - 1
                   /\ \A k \in 1..Len(payments) :
                          payments[k] = IF k < p THEN before.payments[k]
                                        ELSE before.payments[k + 1]
            /\ Len(totals) = 1
            /\ totals[1].name = "Total:"

C20_Witness ==
    /\ DepositFired
    /\ Len(before.payments) = 3
    /\ Len(before.totals) = 4
    /\ Len(before.item_lines) = 2
    /\ Len(item_lines) = 3

----------------------------------------------------------------------------
(* Properties of the drawn page *)

\* The drawing calls of the page made for entry `row` of a block.
OpsOf(region, row) ==
    {k \in 1..Len(page) : page[k].region = region /\ page[k].row = row}

\* The texts drawn for a field of entry `row` of a block.
TextsOf(region, row, field) ==
    {k \in OpsOf(region, row) : page[k].kind = "text" /\ page[k].field = field}

\* C13: every totals entry named "Tax:" is drawn under the label "VAT:"
\* (the document's entry keeping its name), and every entry with another
\* non-empty name under its own name.
C13_TaxDrawnAsVat ==
    gen_result = "page" =>
        \A i \in 1..Len(drawn.totals) :
            drawn.totals[i].name # "" =>
                /\ TextsOf("totals", i, "name") # {}
                /\ \A k \in TextsOf("totals", i, "name") :
                       page[k].text = IF drawn.totals[i].name = "Tax:"
                                      THEN "VAT:"
                                      ELSE drawn.totals[i].name

\* The entries of the totals before entry i whose name is empty, and those
\* whose name is not.
SeparatorsBefore(i) == {j \in 1..(i - 1) : drawn.totals[j].name = ""}
NamedBefore(i) == {j \in 1..(i - 1) : drawn.totals[j].name # ""}

\* C14: a totals entry with an empty name is drawn as one horizontal line,
\* with no name text and no value text, and takes half a line height: an
\* entry with t named and s empty-name entries before it is drawn at
\* li_bottom - (t + 1) line heights - s half line heights.
C14_SeparatorHalfLine ==
    gen_result = "page" =>
        \A i \in 1..Len(drawn.totals) :
            IF drawn.totals[i].name = ""
            THEN /\ Cardinality(OpsOf("totals", i)) = 1
                 /\ \A k \in OpsOf("totals", i) : page[k].kind = "line"
            ELSE /\ TextsOf("totals", i, "name") # {}
                 /\ TextsOf("totals", i, "value") # {}
                 /\ \A k \in OpsOf("totals", i) :
                        /\ page[k].kind = "text"
                        /\ page[k].y =
                               li_bottom
                                 - (Cardinality(NamedBefore(i)) + 1) * line_height
                                 - Cardinality(SeparatorsBefore(i))
                                       * (line_height \div 2)

C14_Witness ==
    /\ gen_result = "page"
    /\ \E i \in 1..Len(drawn.totals) :
           /\ drawn.totals[i].name # ""
           /\ SeparatorsBefore(i) # {}
           /\ NamedBefore(i) # {}
           /\ TextsOf("totals", i, "name") # {}

\* text is src right-justified in a field of the given width behind a
\* currency symbol.
IsCurrencyText(text, src, width) ==
    /\ Len(text) = 1 + (IF Len(src) < width THEN width ELSE Len(src))
    /\ text[1] = "$"
    /\ SubSeq(text, Len(text) - Len(src) + 1, Len(text)) = src
    /\ \A j \in 2..(Len(text) - Len(src)) : text[j] = " "

\* The currency texts of the page, each with the string it was made from.
CurrencyTexts ==
    {[k |-> k, src |-> drawn.item_lines[page[k].row][page[k].field]] :
        k \in {k \in 1..Len(page) :
                  /\ page[k].region = "items"
                  /\ page[k].field \in {"unit_price", "amount"}}}
    \cup
    {[k |-> k, src |-> drawn.item_lines[page[k].row].discount.value] :
        k \in {k \in 1..Len(page) :
                  page[k].region = "items" /\ page[k].field = "discount"}}
    \cup
    {[k |-> k, src |-> drawn.totals[page[k].row].value] :
        k \in {k \in 1..Len(page) :
                  page[k].region = "totals" /\ page[k].field = "value"}}
    \cup
    {[k |-> k, src |-> drawn.payments[page[k].row].value] :
        k \in {k \in 1..Len(page) :
                  page[k].region = "payments" /\ page[k].field = "value"}}

\* C15: a currency field with a non-empty source is drawn right-justified in
\* a fixed width behind a currency symbol; one with an empty source is drawn
\* as nothing, with no currency symbol and no padding.
C15_EmptyCurrencyIsBlank ==
    gen_result = "page" =>
        \A c \in CurrencyTexts :
            IF c.src = <<>>
            THEN page[c.k].text = <<>>
            ELSE IsCurrencyText(page[c.k].text, c.src, 11)

\* The number an item code of the documents reads as; -1 when it is no number.
CodeNumber(code) ==
    CASE code = "2050" -> 2050
      [] code = "2051" -> 2051
      [] code = "1001" -> 1001
      [] code = "1002" -> 1002
      [] code = "1003" -> 1003
      [] code = "1004" -> 1004
      [] OTHER -> -1

\* C16: the unit of measure drawn for an item is the item's own unit when it
\* has one; when it has none the unit is inferred from the item code: "EA"
\* for a code in 2000..2099, "TON" for every other code.
C16_UomExplicitOrInferred ==
    gen_result = "page" =>
        \A i \in 1..Len(drawn.item_lines) :
            \A k \in TextsOf("items", i, "uom") :
                page[k].text =
                    IF drawn.item_lines[i].uom # ""
                    THEN drawn.item_lines[i].uom
                    ELSE IF CodeNumber(drawn.item_lines[i].code) \in 2000..2099
                         THEN "EA"
                         ELSE "TON"

\* text is src behind as many spaces as bring it to the given width.
IsRightJustified(text, src, width) ==
    /\ Len(text) = (IF Len(src) < width THEN width ELSE Len(src))
    /\ SubSeq(text, Len(text) - Len(src) + 1, Len(text)) = src
    /\ \A j \in 1..(Len(text) - Len(src)) : text[j] = " "

\* text is src followed by as many spaces as bring it to the given width.
IsLeftJustified(text, src, width) ==
    /\ Len(text) = (IF Len(src) < width THEN width ELSE Len(src))
    /\ SubSeq(text, 1, Len(src)) = src
    /\ \A j \in (Len(src) + 1)..Len(text) : text[j] = " "

\* The quantity of the item is that of a whole number of pieces.
WholePieces(line) ==
    /\ line.uom = "EA"
    /\ Len(line.quantity) >= 3
    /\ SubSeq(line.quantity, Len(line.quantity) - 2, Len(line.quantity))
           = <<".", "0", "0">>

IntegerPart(line) == SubSeq(line.quantity, 1, Len(line.quantity) - 3)

\* C17 as stated: the quantity of a whole number of pieces is drawn as its
\* integer part left-justified and padded with trailing spaces to the column
\* width; every other quantity is drawn in full, padded to the same width.
C17_QuantityAsStated ==
    gen_result = "page" =>
        \A i \in 1..Len(drawn.item_lines) :
            \A k \in TextsOf("items", i, "quantity") :
                IF WholePieces(drawn.item_lines[i])
                THEN IsLeftJustified(page[k].text,
                                     IntegerPart(drawn.item_lines[i]), 10)
                ELSE \/ IsLeftJustified(page[k].text,
                                        drawn.item_lines[i].quantity, 10)
                     \/ IsRightJustified(page[k].text,
                                         drawn.item_lines[i].quantity, 10)

\* C17: in a layout with a quantity column, the quantity of a whole number
\* of pieces (unit "EA", quantity ending in ".00") is drawn as its integer
\* part right-justified in seven characters and followed by three spaces;
\* every other quantity is drawn in full, right-justified in ten characters.
C17_QuantityText ==
    gen_result = "page" =>
        \A i \in 1..Len(drawn.item_lines) :
            /\ layout # "Receipt" => TextsOf("items", i, "quantity") # {}
            /\ \A k \in TextsOf("items", i, "quantity") :
                   IF WholePieces(drawn.item_lines[i])
                   THEN /\ Len(page[k].text) >= 3
                        /\ IsRightJustified(
                               SubSeq(page[k].text, 1, Len(page[k].text) - 3),
                               IntegerPart(drawn.item_lines[i]), 7)
                        /\ SubSeq(page[k].text, Len(page[k].text) - 2,
                                  Len(page[k].text)) = <<" ", " ", " ">>
                   ELSE IsRightJustified(page[k].text,
                                         drawn.item_lines[i].quantity, 10)

C17_Witness ==
    /\ gen_result = "page"
    /\ \E i, j \in 1..Len(drawn.item_lines) :
           /\ WholePieces(drawn.item_lines[i])
           /\ ~WholePieces(drawn.item_lines[j])
           /\ TextsOf("items", i, "quantity") # {}
           /\ TextsOf("items", j, "quantity") # {}

----------------------------------------------------------------------------
(* Frame of pre_pass and gen_pdf *)

\* C18: over any sequence of pre_pass and gen_pdf calls the document type
\* never changes; a pre_pass call changes at most item_lines, totals and
\* payments; a gen_pdf call changes no field of the document.
C18_Frame ==
    [][/\ doc_type' = doc_type
       /\ header' = header
       /\ calls' = calls =>
              <<item_lines, totals, payments>>' = <<item_lines, totals, payments>>
      ]_vars

C18_Witness ==
    /\ calls >= 1
    /\ item_lines # extracted.item_lines
    /\ gen_result = "page"
    /\ drawn.item_lines = item_lines

----------------------------------------------------------------------------
(* The row cursor of the table body pass *)

\* One row of the table body.
RowHeight == Pt(15)

\* The calls of the page that draw continuation lines of item i, in the
\* order they were made.
ContinuationsOf(i) ==
    SelectSeq([k \in 1..Len(page) |-> k],
              LAMBDA k : /\ page[k].region = "items"
                         /\ page[k].row = i
                         /\ page[k].field = "continuation")

\* The height at which the first row of item i was drawn.
FirstRowY(i) ==
    page[CHOOSE k \in TextsOf("items", i, "description") : TRUE].y

\* C21: the row cursor only moves down.  An item whose description wraps
\* into k lines takes k rows: every text of its first row is drawn at one
\* height, its continuation line j is drawn j rows below that, the next item
\* starts k rows below it, and the first row of an item lies strictly below
\* every row drawn for the items before it.
C21_CursorMovesDown ==
    gen_result = "page" =>
        \A i \in 1..Len(drawn.item_lines) :
            LET k == Len(SplitIntoLines(drawn.item_lines[i].description,
                                        MaxDescLength(layout)).lines)
                conts == ContinuationsOf(i)
            IN  /\ Cardinality(TextsOf("items", i, "description")) = 1
                /\ k >= 1
                /\ Len(conts) = k - 1
                /\ \A o \in OpsOf("items", i) :
                       page[o].field # "continuation" => page[o].y = FirstRowY(i)
                /\ \A j \in 1..Len(conts) :
                       page[conts[j]].y = FirstRowY(i) - j * RowHeight
                /\ i < Len(drawn.item_lines) =>
                       FirstRowY(i + 1) = FirstRowY(i) - k * RowHeight
                /\ \A h \in 1..(i - 1) : \A o \in OpsOf("items", h) :
                       FirstRowY(i) < page[o].y

C21_Witness ==
    /\ gen_result = "page"
    /\ Len(drawn.item_lines) = 2
    /\ Len(ContinuationsOf(1)) = 2
    /\ TextsOf("items", 2, "description") # {}

----------------------------------------------------------------------------
(* The columns of the layouts *)

ColumnNames == {"code", "desc", "uom", "quantity", "price", "disc", "total"}

\* The columns the layout of the last gen_pdf call has.
PresentColumns == {c \in ColumnNames : ColumnIndices(layout)[c] >= 0}

\* C22: Standard has the code column and the data columns description, unit
\* of measure, quantity, unit price and total, and no discount column;
\* StandardWithDiscounts has the discount column besides; Receipt has only
\* description and total.  Each column of a layout has a boundary index of
\* its own, each index is that of an existing boundary, and the boundaries
\* increase strictly from the left margin and stay left of the right margin.
C22_LayoutColumns ==
    layout # "none" =>
        LET ix == ColumnIndices(layout)
            vl == LiVlines(layout)
        IN  /\ PresentColumns =
                   CASE layout = "Standard" -> ColumnNames \ {"disc"}
                     [] layout = "StandardWithDiscounts" -> ColumnNames
                     [] layout = "Receipt" -> {"desc", "total"}
            /\ \A c, d \in PresentColumns : c # d => ix[c] # ix[d]
            /\ \A c \in PresentColumns : ix[c] + 1 \in 1..Len(vl)
            /\ vl[1] = left_margin
            /\ \A b \in 1..(Len(vl) - 1) : vl[b] < vl[b + 1]
            /\ vl[Len(vl)] < right_margin

C22_Witness ==
    /\ gen_result = "page"
    /\ layout = "StandardWithDiscounts"
    /\ \E i \in 1..Len(drawn.item_lines) :
           /\ TextsOf("items", i, "discount") # {}
           /\ TextsOf("items", i, "amount") # {}

----------------------------------------------------------------------------
(* The ticket aggregates *)

\* What is left of a ticket description of the mails when only digits,
\* punctuation and whitespace are kept and the ends are trimmed.
TicketToken(description) ==
    CASE description = DtDescription -> <<"#", "4", "8", "2", "1">>
      [] description = WtDescription -> <<"7", "7">>
      [] OTHER -> <<>>

\* The descriptions of the rows of table three with the given code, in row
\* order.
DescriptionsOf(code) ==
    LET rows == SelectSeq(mail.tables[3], LAMBDA row : Cleanup(row[1]) = code)
    IN  [r \in 1..Len(rows) |-> Cleanup(rows[r][2])]

\* The tokens that are not empty, joined with one space.
JoinSurviving(descriptions) ==
    LET tokens == SelectSeq([r \in 1..Len(descriptions) |->
                                 TicketToken(descriptions[r])],
                            LAMBDA t : t # <<>>)
        J[i \in 0..Len(tokens)] ==
            IF i = 0 THEN <<>>
            ELSE IF i = 1 THEN tokens[1]
            ELSE J[i - 1] \o <<" ">> \o tokens[i]
    IN  J[Len(tokens)]

\* C23: the delivery-tickets aggregate is the filtered and trimmed
\* descriptions of the "2300" rows that are not empty after filtering, in row
\* order, joined with exactly one space (so it has no leading, trailing or
\* doubled space, and is empty when there is no such row); likewise the
\* weigh-tickets aggregate and the "2301" rows.
C23_TicketsJoined ==
    parsed.state = "ok" =>
        /\ parsed.receipt[1].delivery_tickets
               = JoinSurviving(DescriptionsOf(TicketCodeDt))
        /\ parsed.receipt[1].weigh_tickets
               = JoinSurviving(DescriptionsOf(TicketCodeWt))

----------------------------------------------------------------------------
(* The tenders block *)

\* C24: a payments entry with an empty name is a separator: the page has a
\* rule line for it, and neither a name text nor a value text.
C24_PaymentSeparator ==
    gen_result = "page" =>
        \A i \in 1..Len(drawn.payments) :
            drawn.payments[i].name = "" =>
                /\ \E k \in OpsOf("payments", i) : page[k].kind = "line"
                /\ \A k \in OpsOf("payments", i) : page[k].kind # "text"

----------------------------------------------------------------------------
(* Simple cleanup *)

\* C25: the simple cleanup of the text nodes of an element (here the title
\* span) has no whitespace at either end and never two whitespace characters
\* in a row.
C25_CleanupCollapsed ==
    parsed.state = "ok" =>
        LET t == parsed.receipt[1].title
        IN  /\ t # <<>> => t[1] \notin Whitespace /\ t[Len(t)] \notin Whitespace
            /\ \A j \in 1..(Len(t) - 1) :
                   ~(t[j] \in Whitespace /\ t[j + 1] \in Whitespace)

----------------------------------------------------------------------------
(* pre_pass that fails, gen_pdf that does not return *)

\* C26: when pre_pass returns an error the document is as it was before the
\* call: the "Pay on Account" entry is still in Payments at its position, and
\* LineItems and Totals are unchanged.
C26_ErrorLeavesDocument ==
    calls >= 1 /\ pre_result = "err" =>
        /\ payments = before.payments
        /\ item_lines = before.item_lines
        /\ totals = before.totals

\* C27: gen_pdf never aborts: whatever the document, also one with an item
\* whose description is empty, the call runs the table body pass to its end
\* and returns the page or an error.
C27_RenderingReturns == gen_result \in {"none", "page", "err"}

----------------------------------------------------------------------------
(* Normalisation and the layout *)

\* The layout a document type and a list of items call for.
LayoutFor(dtype, items) ==
    IF dtype = "Receipt" THEN "Receipt"
    ELSE IF HasDiscount(items) THEN "StandardWithDiscounts"
    ELSE "Standard"

\* C28: normalisation never changes the layout: after a pre_pass call that
\* succeeded, the layout selected from the document is the one that would
\* have been selected from the document as it was before the call, and as it
\* was constructed.
C28_LayoutKept ==
    calls >= 1 /\ pre_result = "ok" =>
        /\ LayoutType(doc_type, item_lines) = LayoutFor(doc_type, before.item_lines)
        /\ LayoutType(doc_type, item_lines) = LayoutFor(doc_type, extracted.item_lines)
        /\ LayoutType(doc_type, item_lines)
               = LayoutType(doc_type, before.item_lines)

C28_Witness ==
    /\ DepositFired
    /\ ~HasDiscount(before.item_lines)
    /\ doc_type = "Quote"
    /\ drawn.item_lines = item_lines
    /\ layout = "Standard"

====
